---- MODULE Spec2Model ----
(***************************************************************************)
(* DSSIMObjective of lib/model/losses.py: the structural-dissimilarity     *)
(* loss of faceswap, and its patch-extraction helper.                      *)
(*                                                                         *)
(* Tensors are records [shape, data] with the data in row-major order.     *)
(* Arithmetic is exact: pixel values are integers, every statistic is a    *)
(* fraction, and the products of the similarity formula are kept in        *)
(* arbitrary precision (sequences of limbs), so that no bound of the       *)
(* evaluator rounds or wraps a value.  A fraction with denominator zero is *)
(* the result of a floating-point division by zero (0/0 is NaN).           *)
(***************************************************************************)
EXTENDS Integers, Sequences, FiniteSets, TLC

VARIABLES self, y_true, y_pred, ret, frame, pc, calls

vars == <<self, y_true, y_pred, ret, frame, pc, calls>>

----------------------------------------------------------------------------
(* Bounds of the model.                                                    *)

\* kernel_size ranges over 1..MaxKernel
MaxKernel == 2
\* pixel values of the smallest tensors range over -1..MaxPixel
MaxPixel == 1
\* number of __call__ invocations on one object in SpecCalls
MaxCalls == 2

----------------------------------------------------------------------------
(* Arbitrary-precision integers: sign and magnitude, the magnitude a       *)
(* little-endian sequence of limbs in base Base without leading zeros.     *)

Base == 10 * 10 * 10

RECURSIVE NatLimbs(_)
NatLimbs(i) == IF i = 0 THEN <<>> ELSE <<i % Base>> \o NatLimbs(i \div Base)

Limb(a, i) == IF i <= Len(a) THEN a[i] ELSE 0

RECURSIVE Strip(_)
Strip(a) == IF a # <<>> /\ a[Len(a)] = 0 THEN Strip(SubSeq(a, 1, Len(a) - 1)) ELSE a

RECURSIVE Carry(_, _, _)
Carry(a, i, c) ==
  IF i > Len(a) THEN NatLimbs(c)
  ELSE LET t == a[i] + c IN <<t % Base>> \o Carry(a, i + 1, t \div Base)

MagAdd(a, b) ==
  LET n == IF Len(a) > Len(b) THEN Len(a) ELSE Len(b)
  IN  Carry([i \in 1..n |-> Limb(a, i) + Limb(b, i)], 1, 0)

RECURSIVE Borrow(_, _, _)
Borrow(a, i, c) ==
  IF i > Len(a) THEN <<>>
  ELSE LET t == a[i] - c IN
       IF t < 0 THEN <<t + Base>> \o Borrow(a, i + 1, 1)
                ELSE <<t>> \o Borrow(a, i + 1, 0)

\* a - b for a >= b
MagSub(a, b) == Strip(Borrow([i \in 1..Len(a) |-> a[i] - Limb(b, i)], 1, 0))

RECURSIVE SumTo(_, _, _)
SumTo(f, lo, hi) == IF lo > hi THEN 0 ELSE f[lo] + SumTo(f, lo + 1, hi)

MagMul(a, b) ==
  IF a = <<>> \/ b = <<>> THEN <<>>
  ELSE LET n == Len(a) + Len(b) - 1
           conv == [k \in 1..n |->
                      LET lo == IF k - Len(b) + 1 > 1 THEN k - Len(b) + 1 ELSE 1
                          hi == IF k < Len(a) THEN k ELSE Len(a)
                      IN  SumTo([i \in lo..hi |-> a[i] * b[k + 1 - i]], lo, hi)]
       IN  Carry(conv, 1, 0)

RECURSIVE MagCmpAt(_, _, _)
MagCmpAt(a, b, i) ==
  IF i = 0 THEN 0
  ELSE IF a[i] < b[i] THEN -1
  ELSE IF a[i] > b[i] THEN 1
  ELSE MagCmpAt(a, b, i - 1)

MagCmp(a, b) ==
  IF Len(a) < Len(b) THEN -1
  ELSE IF Len(a) > Len(b) THEN 1
  ELSE MagCmpAt(a, b, Len(a))

Big(i) == [neg |-> i < 0, mag |-> NatLimbs(IF i < 0 THEN -i ELSE i)]

BigNeg(x) == [neg |-> (x.mag # <<>>) /\ ~x.neg, mag |-> x.mag]

BigAdd(x, y) ==
  IF x.neg = y.neg THEN [neg |-> x.neg, mag |-> MagAdd(x.mag, y.mag)]
  ELSE LET c == MagCmp(x.mag, y.mag) IN
       IF c = 0 THEN [neg |-> FALSE, mag |-> <<>>]
       ELSE IF c > 0 THEN [neg |-> x.neg, mag |-> MagSub(x.mag, y.mag)]
       ELSE [neg |-> y.neg, mag |-> MagSub(y.mag, x.mag)]

BigSub(x, y) == BigAdd(x, BigNeg(y))

BigMul(x, y) ==
  LET m == MagMul(x.mag, y.mag)
  IN  [neg |-> (m # <<>>) /\ (x.neg # y.neg), mag |-> m]

BigSign(x) == IF x.mag = <<>> THEN 0 ELSE IF x.neg THEN -1 ELSE 1

BigLeq(x, y) == BigSign(BigSub(x, y)) <= 0

----------------------------------------------------------------------------
(* Fractions.  Q(n, d) is the fraction n/d of two machine integers, used   *)
(* for the statistics of one patch; a Rat is a fraction of two Bigs with a *)
(* denominator >= 0, used from the products of the formula on.  Nothing is *)
(* reduced: two fractions are compared by cross-multiplication.            *)

Q(n, d) == [n |-> n, d |-> d]

QAdd(x, y) ==
  IF x.d = y.d THEN Q(x.n + y.n, x.d) ELSE Q(x.n * y.d + y.n * x.d, x.d * y.d)

QSub(x, y) ==
  IF x.d = y.d THEN Q(x.n - y.n, x.d) ELSE Q(x.n * y.d - y.n * x.d, x.d * y.d)

QMul(x, y) == Q(x.n * y.n, x.d * y.d)

QScale(k, x) == Q(k * x.n, x.d)

Rat(n, d) == [num |-> n, den |-> d]

RatOfQ(x) == Rat(Big(x.n), Big(x.d))

RatOfInt(i) == Rat(Big(i), Big(1))

RatFinite(x) == BigSign(x.den) # 0

RatAdd(x, y) ==
  IF x.den = y.den THEN Rat(BigAdd(x.num, y.num), x.den)
  ELSE Rat(BigAdd(BigMul(x.num, y.den), BigMul(y.num, x.den)), BigMul(x.den, y.den))

RatSub(x, y) ==
  IF x.den = y.den THEN Rat(BigSub(x.num, y.num), x.den)
  ELSE Rat(BigSub(BigMul(x.num, y.den), BigMul(y.num, x.den)), BigMul(x.den, y.den))

RatMul(x, y) == Rat(BigMul(x.num, y.num), BigMul(x.den, y.den))

\* x / y; the sign is carried by the numerator.  A zero divisor gives the
\* non-finite value with denominator zero.
RatDiv(x, y) ==
  LET n == IF x.den = y.den THEN x.num ELSE BigMul(x.num, y.den)
      d == IF x.den = y.den THEN y.num ELSE BigMul(x.den, y.num)
  IN  IF d.neg THEN Rat(BigNeg(n), BigNeg(d)) ELSE Rat(n, d)

RatDivInt(x, k) == Rat(x.num, BigMul(x.den, Big(k)))

RatEq(x, y) ==
  /\ RatFinite(x)
  /\ RatFinite(y)
  /\ BigMul(x.num, y.den) = BigMul(y.num, x.den)

RatLeq(x, y) ==
  /\ RatFinite(x)
  /\ RatFinite(y)
  /\ BigLeq(BigMul(x.num, y.den), BigMul(y.num, x.den))

RatLess(x, y) == RatLeq(x, y) /\ ~RatEq(x, y)

RECURSIVE RatSum(_, _)
RatSum(s, i) == IF i > Len(s) THEN RatOfInt(0) ELSE RatAdd(s[i], RatSum(s, i + 1))

----------------------------------------------------------------------------
(* Tensors and the backend functions the class calls.                      *)

Prod(shape) == shape[1] * shape[2] * shape[3] * shape[4]

\* the data of a tensor is held as an explicit sequence
Explicit(data) == IF data = <<>> THEN <<>> ELSE data

Tensor(shape, data) == [shape |-> shape, data |-> Explicit(data)]

\* x[i0, i1, i2, i3], indices from 0
At(x, i0, i1, i2, i3) ==
  x.data[1 + ((i0 * x.shape[2] + i1) * x.shape[3] + i2) * x.shape[4] + i3]

\* the index <<i0, i1, i2, i3>> of the p-th element (p from 0) of a shape
Unravel(shape, p) ==
  << p \div (shape[2] * shape[3] * shape[4]),
     (p \div (shape[3] * shape[4])) % shape[2],
     (p \div shape[4]) % shape[3],
     p % shape[4] >>

K_int_shape(x) == x.shape

\* K.reshape(x, [-1] + rest): the leading dimension is inferred; the element
\* count must be a multiple of the product of the rest.
K_reshape(x, rest) ==
  LET per == rest[1] * rest[2] * rest[3] IN
  IF Len(x.data) % per # 0
  THEN [kind |-> "raise", exc |-> "InvalidArgumentError", at |-> "reshape"]
  ELSE [kind |-> "ok",
        val  |-> Tensor(<<Len(x.data) \div per, rest[1], rest[2], rest[3]>>, x.data)]

\* K.permute_dimensions(x, (0, 2, 3, 1))
K_permute_dimensions(x) ==
  LET shape == <<x.shape[1], x.shape[3], x.shape[4], x.shape[2]>> IN
  Tensor(shape,
         [p \in 1..Len(x.data) |->
            LET i == Unravel(shape, p - 1) IN At(x, i[1], i[4], i[2], i[3])])

\* C++ integer division, which truncates toward zero
TruncDiv(a, b) == IF a >= 0 THEN a \div b ELSE -((-a) \div b)

\* the output size and leading padding of one spatial dimension
WindowedOutputSize(size, k, s, padding) ==
  IF padding = "VALID"
  THEN [out |-> TruncDiv(size - k + s, s), pad |-> 0]
  ELSE LET out == (size + s - 1) \div s
           need == (out - 1) * s + k - size
       IN  [out |-> out, pad |-> IF need > 0 THEN need \div 2 ELSE 0]

\* tensorflow.extract_image_patches(x, kernel, strides, [1, 1, 1, 1], padding)
\* on a batch x of shape (B, H, W, C): a tensor of shape
\* (B, rows, cols, kh * kw * C) whose last axis holds one patch, row by row,
\* zero where the window leaves the image.
tf_extract_image_patches(x, kernel, strides, padding) ==
  LET B == x.shape[1]
      H == x.shape[2]
      W == x.shape[3]
      C == x.shape[4]
      r == WindowedOutputSize(H, kernel[2], strides[2], padding)
      c == WindowedOutputSize(W, kernel[3], strides[3], padding)
      shape == <<B, r.out, c.out, kernel[2] * kernel[3] * C>>
  IN
  IF r.out < 0 \/ c.out < 0
  THEN [kind |-> "raise", exc |-> "InvalidArgumentError", at |-> "extract_image_patches"]
  ELSE [kind |-> "ok",
        val |-> Tensor(shape,
          [p \in 1..Prod(shape) |->
             LET i  == Unravel(shape, p - 1)
                 ch == i[4] % C
                 kj == (i[4] \div C) % kernel[3]
                 ki == i[4] \div (C * kernel[3])
                 h  == i[2] * strides[2] + ki - r.pad
                 w  == i[3] * strides[3] + kj - c.pad
             IN  IF h >= 0 /\ h < H /\ w >= 0 /\ w < W
                 THEN At(x, i[1], h, w, ch) ELSE 0])]

\* shapes that must be equal: no broadcasting
BroadcastCompatible_strict(x, y) == x.shape = y.shape

\* elementwise operations on two tensors follow numpy's broadcasting: an
\* axis of size 1 is repeated along the other tensor's axis
BroadcastCompatible(x, y) ==
  \A i \in 1..4 : x.shape[i] = y.shape[i] \/ x.shape[i] = 1 \/ y.shape[i] = 1

BroadcastShape(x, y) ==
  [i \in 1..4 |-> IF x.shape[i] = 1 THEN y.shape[i] ELSE x.shape[i]]

AtB(x, i) ==
  At(x, IF x.shape[1] = 1 THEN 0 ELSE i[1], IF x.shape[2] = 1 THEN 0 ELSE i[2],
        IF x.shape[3] = 1 THEN 0 ELSE i[3], IF x.shape[4] = 1 THEN 0 ELSE i[4])

\* the pairs of elements an elementwise operation on x and y combines
Pairs(x, y) ==
  LET shape == BroadcastShape(x, y) IN
  Tensor(shape, [p \in 1..Prod(shape) |->
                   LET i == Unravel(shape, p - 1) IN <<AtB(x, i), AtB(y, i)>>])

\* x * y, x - y and x + y on tensors of fractions
T_mul(x, y) ==
  LET z == Pairs(x, y) IN
  Tensor(z.shape, [p \in 1..Len(z.data) |-> QMul(z.data[p][1], z.data[p][2])])

T_sub(x, y) ==
  LET z == Pairs(x, y) IN
  Tensor(z.shape, [p \in 1..Len(z.data) |-> QSub(z.data[p][1], z.data[p][2])])

T_add(x, y) ==
  LET z == Pairs(x, y) IN
  Tensor(z.shape, [p \in 1..Len(z.data) |-> QAdd(z.data[p][1], z.data[p][2])])

\* K.square(x), k * x and x + c for an integer k and a fraction c
T_square(x) == Tensor(x.shape, [p \in 1..Len(x.data) |-> QMul(x.data[p], x.data[p])])

T_scale(k, x) == Tensor(x.shape, [p \in 1..Len(x.data) |-> QScale(k, x.data[p])])

T_add_scalar(x, c) == Tensor(x.shape, [p \in 1..Len(x.data) |-> QAdd(x.data[p], c)])

\* a tensor of integers as a tensor of fractions
T_of_int(x) == Tensor(x.shape, [p \in 1..Len(x.data) |-> Q(x.data[p], 1)])

\* a tensor of fractions as a tensor of Rats, and x * y, x / y on those
R_of(x) == Tensor(x.shape, [p \in 1..Len(x.data) |-> RatOfQ(x.data[p])])

R_mul(x, y) ==
  LET z == Pairs(x, y) IN
  Tensor(z.shape, [p \in 1..Len(z.data) |-> RatMul(z.data[p][1], z.data[p][2])])

R_div(x, y) ==
  LET z == Pairs(x, y) IN
  Tensor(z.shape, [p \in 1..Len(z.data) |-> RatDiv(z.data[p][1], z.data[p][2])])

RECURSIVE QSum(_, _, _)
QSum(data, lo, hi) ==
  IF lo > hi THEN Q(0, 1)
  ELSE IF lo = hi THEN data[lo]
  ELSE QAdd(data[lo], QSum(data, lo + 1, hi))

\* K.mean(x, axis=-1) of a tensor of fractions: the last axis is kept here
\* with size 1
K_mean_last(x) ==
  LET n == x.shape[4]
      shape == <<x.shape[1], x.shape[2], x.shape[3], 1>>
  IN  Tensor(shape, [p \in 1..Prod(shape) |->
                       LET s == QSum(x.data, (p - 1) * n + 1, p * n)
                       IN  Q(s.n, s.d * n)])

QSquare(v) == QMul(v, v)

\* K.var(x, axis=-1) without the centring: the mean of the squares
K_var_last_uncentred(x) == K_mean_last(T_square(x))

\* K.var(x, axis=-1): the mean of the squared deviations from the mean
K_var_last(x) ==
  LET m == K_mean_last(x) IN
  K_mean_last(T_square(T_sub(x, m)))

\* K.mean(x) of a tensor of Rats over all its elements; of no elements it is
\* 0/0
K_mean_all(x) ==
  LET s == RatSum(x.data, 1) IN Rat(s.num, BigMul(s.den, Big(Len(x.data))))

----------------------------------------------------------------------------
(* class DSSIMObjective                                                    *)

\* K.image_data_format() and K.backend() of the process
ImageDataFormats == {"channels_last", "channels_first"}

\* __init__ with c_1 and c_2 left unsquared
DSSIMObjective_init_unsquared(k1, k2, kernel_size, max_value, data_format) ==
  [ name         |-> "DSSIMObjective",
    kernel_size  |-> kernel_size,
    k1           |-> k1,
    k2           |-> k2,
    max_value    |-> max_value,
    c_1          |-> QScale(max_value, k1),
    c_2          |-> QScale(max_value, k2),
    dim_ordering |-> data_format,
    backend      |-> "tensorflow" ]

\* __init__(self, k1, k2, kernel_size, max_value); k1 and k2 are fractions
DSSIMObjective_init(k1, k2, kernel_size, max_value, data_format) ==
  [ name         |-> "DSSIMObjective",
    kernel_size  |-> kernel_size,
    k1           |-> k1,
    k2           |-> k2,
    max_value    |-> max_value,
    c_1          |-> QSquare(QScale(max_value, k1)),
    c_2          |-> QSquare(QScale(max_value, k2)),
    dim_ordering |-> data_format,
    backend      |-> "tensorflow" ]

\* _preprocess_padding that hands an unknown padding on instead of raising
preprocess_padding_passthrough(padding) ==
  IF padding = "same" THEN [kind |-> "ok", val |-> "SAME"]
  ELSE IF padding = "valid" THEN [kind |-> "ok", val |-> "VALID"]
  ELSE [kind |-> "ok", val |-> padding]

\* _preprocess_padding(padding)
preprocess_padding(padding) ==
  IF padding = "same" THEN [kind |-> "ok", val |-> "SAME"]
  ELSE IF padding = "valid" THEN [kind |-> "ok", val |-> "VALID"]
  ELSE [kind |-> "raise", exc |-> "ValueError", at |-> "_preprocess_padding",
        args |-> <<"Invalid padding:", padding>>]

\* extract_image_patches that leaves the strides at 1
extract_image_patches_unit_stride(x, ksizes, ssizes, padding, data_format) ==
  LET kernel  == <<1, ksizes[1], ksizes[2], 1>>
      strides == <<1, 1, 1, 1>>
      pad     == preprocess_padding(padding)
  IN  IF pad.kind = "raise" THEN pad
      ELSE tf_extract_image_patches(
             IF data_format = "channels_first" THEN K_permute_dimensions(x) ELSE x,
             kernel, strides, pad.val)

\* extract_image_patches(self, x, ksizes, ssizes, padding, data_format)
extract_image_patches(x, ksizes, ssizes, padding, data_format) ==
  LET kernel  == <<1, ksizes[1], ksizes[2], 1>>
      strides == <<1, ssizes[1], ssizes[2], 1>>
      pad     == preprocess_padding(padding)
  IN  IF pad.kind = "raise" THEN pad
      ELSE tf_extract_image_patches(
             IF data_format = "channels_first" THEN K_permute_dimensions(x) ELSE x,
             kernel, strides, pad.val)

NoFrame == [stage |-> "none"]

\* the covariance of lines 96-97 without the product of the means
covar_uncentred(pt, pp, u_true, u_pred) == K_mean_last(T_mul(pt, pp))

\* covar_true_pred of lines 96-97, per patch
covar(pt, pp, u_true, u_pred) ==
  T_sub(K_mean_last(T_mul(pt, pp)), T_mul(u_true, u_pred))

\* the similarity numerator of lines 99-100, per patch
ssim_numerator(obj, u_true, u_pred, covar_true_pred) ==
  R_mul(R_of(T_add_scalar(T_scale(2, T_mul(u_true, u_pred)), obj.c_1)),
        R_of(T_add_scalar(T_scale(2, covar_true_pred), obj.c_2)))

\* denom with the variance of the prediction taken twice
ssim_denom_pred_only(obj, u_true, u_pred, var_true, var_pred) ==
  R_mul(R_of(T_add_scalar(T_add(T_square(u_true), T_square(u_pred)), obj.c_1)),
        R_of(T_add_scalar(T_add(var_pred, var_pred), obj.c_2)))

\* denom without the stabilising constants
ssim_denom_without_constants(obj, u_true, u_pred, var_true, var_pred) ==
  R_mul(R_of(T_add(T_square(u_true), T_square(u_pred))),
        R_of(T_add(var_pred, var_true)))

\* denom of lines 101-102, per patch
ssim_denom(obj, u_true, u_pred, var_true, var_pred) ==
  R_mul(R_of(T_add_scalar(T_add(T_square(u_true), T_square(u_pred)), obj.c_1)),
        R_of(T_add_scalar(T_add(var_pred, var_true), obj.c_2)))

\* (1.0 - ssim) / 2.0 of line 104, per patch
dssim_term(x) == RatDivInt(RatSub(RatOfInt(1), x), 2)

dssim_terms(ssim) ==
  Tensor(ssim.shape, [p \in 1..Len(ssim.data) |-> dssim_term(ssim.data[p])])

\* the statistics and the formula of lines 89-104, for patches whose shapes
\* broadcast
dssim_of_patches(obj, patches_true, patches_pred) ==
  LET pt     == T_of_int(patches_true)
      pp     == T_of_int(patches_pred)
      u_true == K_mean_last(pt)
      u_pred == K_mean_last(pp)
      var_true == K_var_last(pt)
      var_pred == K_var_last(pp)
      covar_true_pred == covar(pt, pp, u_true, u_pred)
      num   == ssim_numerator(obj, u_true, u_pred, covar_true_pred)
      denom == ssim_denom(obj, u_true, u_pred, var_true, var_pred)
      ssim  == R_div(num, denom)
  IN  [ret   |-> [kind |-> "return", val |-> K_mean_all(dssim_terms(ssim))],
       frame |-> [stage |-> "returned", patches_true |-> patches_true,
                  patches_pred |-> patches_pred, denom |-> denom, ssim |-> ssim]]

\* __call__(self, y_true, y_pred): the returned value or the exception, and
\* the locals of the call as it ends
DSSIMObjective_call(obj, yt, yp) ==
  LET kernel == <<obj.kernel_size, obj.kernel_size>>
      rest   == Tail(K_int_shape(yp))
      r_true == K_reshape(yt, rest)
      r_pred == K_reshape(yp, rest)
  IN
  IF r_true.kind = "raise" THEN [ret |-> r_true, frame |-> NoFrame]
  ELSE IF r_pred.kind = "raise" THEN [ret |-> r_pred, frame |-> NoFrame]
  ELSE
    LET patches_pred ==
          extract_image_patches(r_pred.val, kernel, kernel, "valid", obj.dim_ordering)
        patches_true ==
          extract_image_patches(r_true.val, kernel, kernel, "valid", obj.dim_ordering)
    IN
    IF patches_pred.kind = "raise" THEN [ret |-> patches_pred, frame |-> NoFrame]
    ELSE IF patches_true.kind = "raise" THEN [ret |-> patches_true, frame |-> NoFrame]
    ELSE IF ~BroadcastCompatible(patches_true.val, patches_pred.val)
    THEN [ret   |-> [kind |-> "raise", exc |-> "InvalidArgumentError", at |-> "statistics"],
          frame |-> [stage |-> "raised", patches_true |-> patches_true.val,
                     patches_pred |-> patches_pred.val]]
    ELSE dssim_of_patches(obj, patches_true.val, patches_pred.val)

----------------------------------------------------------------------------
(* The inputs of the model.                                                *)

TensorsOf(shape, pixels) == { Tensor(shape, d) : d \in [1..Prod(shape) -> pixels] }

Pixels == -1..MaxPixel

\* one image of two channels (or of two columns, channels first)
OnePixel == TensorsOf(<<1, 1, 1, 2>>, Pixels)

\* a batch of two images of one pixel
TwoImages == TensorsOf(<<2, 1, 1, 1>>, Pixels)

\* one 2x2 image of black and white pixels
Square == TensorsOf(<<1, 2, 2, 1>>, 0..1)

\* one 2x3 image of black and white pixels with two equal rows: a patch of
\* size 2 leaves out its last column
Wide == { t \in TensorsOf(<<1, 2, 3, 1>>, 0..1) : \A j \in 1..3 : t.data[j] = t.data[j + 3] }

Families == {OnePixel, TwoImages, Square, Wide}

Zeros(shape) == Tensor(shape, [p \in 1..Prod(shape) |-> 0])

Ramp(shape) == Tensor(shape, [p \in 1..Prod(shape) |-> p % 2])

Shapes == { (CHOOSE t \in F : TRUE).shape : F \in Families }

Probes == UNION { {Zeros(sh), Ramp(sh)} : sh \in Shapes }

\* the pairs (y_true, y_pred) handed to __call__: every pair of one family,
\* and pairs of batches of two shapes
ArgumentPairs ==
  UNION { F \X F : F \in Families }
    \cup { p \in Probes \X Probes : p[1].shape # p[2].shape }

\* k1, k2, max_value: the defaults of __init__, and another choice
Params ==
  { [k1 |-> Q(1, 100), k2 |-> Q(3, 100), max_value |-> 1],
    [k1 |-> Q(1, 2),   k2 |-> Q(1, 1),   max_value |-> 2] }

Objects ==
  { DSSIMObjective_init(p.k1, p.k2, ks, p.max_value, df) :
      p \in Params, ks \in 1..MaxKernel, df \in ImageDataFormats }

Paddings == {"same", "valid", "bogus", "SAME", "VALID"}

----------------------------------------------------------------------------
(* Spec: one object, one pair of arguments, one call.                      *)

Init ==
  /\ self \in Objects
  /\ \E p \in ArgumentPairs : y_true = p[1] /\ y_pred = p[2]
  /\ ret = [kind |-> "none"]
  /\ frame = NoFrame
  /\ pc = "ready"
  /\ calls = <<>>

\* loss = self(y_true, y_pred)
Call ==
  /\ pc = "ready"
  /\ LET r == DSSIMObjective_call(self, y_true, y_pred) IN
       /\ ret' = r.ret
       /\ frame' = r.frame
       /\ calls' = Append(calls, [y_true |-> y_true, y_pred |-> y_pred, ret |-> r.ret])
  /\ pc' = "done"
  /\ UNCHANGED <<self, y_true, y_pred>>

\* patches = self.extract_image_patches(y_pred, ksizes, ssizes, padding),
\* the helper called on its own, with the object's kernel, a stride of 1 or
\* of the kernel, and any padding string
ExtractPatches ==
  /\ pc = "ready"
  /\ \E padding \in Paddings, stride \in {1, self.kernel_size} :
       LET ksizes == <<self.kernel_size, self.kernel_size>>
           ssizes == <<stride, stride>>
           r == extract_image_patches(y_pred, ksizes, ssizes, padding, self.dim_ordering)
       IN  /\ ret' = IF r.kind = "raise" THEN r ELSE [kind |-> "return", val |-> r.val]
           /\ frame' = [stage |-> "helper", ksizes |-> ksizes, ssizes |-> ssizes,
                        padding |-> padding]
  /\ pc' = "done"
  /\ UNCHANGED <<self, y_true, y_pred, calls>>

\* DSSIMObjective._preprocess_padding(padding), the static method called on
\* its own
PreprocessPadding ==
  /\ pc = "ready"
  /\ \E padding \in Paddings :
       LET r == preprocess_padding(padding) IN
         /\ ret' = IF r.kind = "raise" THEN r ELSE [kind |-> "return", val |-> r.val]
         /\ frame' = [stage |-> "padding", padding |-> padding]
  /\ pc' = "done"
  /\ UNCHANGED <<self, y_true, y_pred, calls>>

Next == Call \/ ExtractPatches \/ PreprocessPadding

Spec == Init /\ [][Next]_vars

----------------------------------------------------------------------------
(* SpecCalls: one object called several times.                             *)

None == Tensor(<<0, 0, 0, 0>>, <<>>)

CallArguments ==
  LET ts == { Zeros(<<1, 1, 1, 2>>), Ramp(<<1, 1, 1, 2>>), Ramp(<<1, 2, 2, 1>>) }
  IN  ts \X ts

InitCalls ==
  /\ self \in Objects
  /\ y_true = None
  /\ y_pred = None
  /\ ret = [kind |-> "none"]
  /\ frame = NoFrame
  /\ pc = "idle"
  /\ calls = <<>>

\* a call that rescales the stored constant as it goes
Invoke_rescaling(yt, yp) ==
  /\ Len(calls) < MaxCalls
  /\ LET r == DSSIMObjective_call(self, yt, yp) IN
       /\ ret' = r.ret
       /\ frame' = r.frame
       /\ calls' = Append(calls, [y_true |-> yt, y_pred |-> yp, ret |-> r.ret])
  /\ y_true' = yt
  /\ y_pred' = yp
  /\ pc' = "done"
  /\ self' = [self EXCEPT !.c_2 = QScale(2, self.c_2)]

\* loss = self(yt, yp), on an object that may have been called before
Invoke(yt, yp) ==
  /\ Len(calls) < MaxCalls
  /\ LET r == DSSIMObjective_call(self, yt, yp) IN
       /\ ret' = r.ret
       /\ frame' = r.frame
       /\ calls' = Append(calls, [y_true |-> yt, y_pred |-> yp, ret |-> r.ret])
  /\ y_true' = yt
  /\ y_pred' = yp
  /\ pc' = "done"
  /\ UNCHANGED self

NextCalls == \E p \in CallArguments : Invoke(p[1], p[2])

SpecCalls == InitCalls /\ [][NextCalls]_vars

----------------------------------------------------------------------------
(* What the claims speak of.                                               *)

\* self(y_true, y_pred) has ended, by a return or by an exception
Called == pc = "done" /\ frame.stage \in {"none", "raised", "returned"}

\* self(y_true, y_pred) has returned a value
Returned == pc = "done" /\ frame.stage = "returned"

SameShape == y_true.shape = y_pred.shape

\* the number of patches the loss is the mean over
NumPatches == Len(frame.ssim.data)

InRange(x, lo, hi) == \A p \in 1..Len(x.data) : lo <= x.data[p] /\ x.data[p] <= hi

Constant(x, v) == \A p \in 1..Len(x.data) : x.data[p] = v

Half == Rat(Big(1), Big(2))

IsNaN(x) == BigSign(x.num) = 0 /\ BigSign(x.den) = 0

----------------------------------------------------------------------------
(* C1: for two batches of one shape with pixels in [0, max_value], the     *)
(* returned loss lies in [0, 0.5].  Stated here for the calls that extract *)
(* at least one patch.                                                     *)
C1_LossWithinZeroAndHalf ==
  ( /\ Returned
    /\ SameShape
    /\ InRange(y_true, 0, self.max_value)
    /\ InRange(y_pred, 0, self.max_value)
    /\ NumPatches > 0 )
  => /\ RatLeq(RatOfInt(0), ret.val)
     /\ RatLeq(ret.val, Half)

----------------------------------------------------------------------------
(* C2: for identical inputs the call returns exactly 0, every patch having *)
(* similarity exactly 1.                                                   *)

----------------------------------------------------------------------------
(* C3: the loss is symmetric: for two batches of one shape, the call with  *)
(* the arguments swapped gives the same value.                             *)

SameOutcome(r1, r2) ==
  IF r1.kind = "return" /\ r2.kind = "return"
  THEN RatEq(r1.val, r2.val) \/ (IsNaN(r1.val) /\ IsNaN(r2.val))
  ELSE r1 = r2

C3_Symmetric ==
  (Called /\ SameShape) => SameOutcome(ret, DSSIMObjective_call(self, y_pred, y_true).ret)

C3_Witness ==
  /\ Returned
  /\ SameShape
  /\ y_true # y_pred
  /\ NumPatches > 0
  /\ RatLess(RatOfInt(0), ret.val)
  /\ \E p \in 1..Len(frame.patches_true.data) :
       \E q \in 1..Len(frame.patches_true.data) :
         frame.patches_true.data[p] # frame.patches_true.data[q]
  /\ \E v \in Pixels : Constant(frame.patches_pred, v)

----------------------------------------------------------------------------
(* C7: c_1 and c_2 are strictly positive, and the denominator of the       *)
(* division is strictly positive for every patch of every call.            *)
C7_DenominatorPositive ==
  /\ self.c_1.n > 0 /\ self.c_1.d > 0
  /\ self.c_2.n > 0 /\ self.c_2.d > 0
  /\ Returned =>
       \A p \in 1..Len(frame.denom.data) :
         /\ BigSign(frame.denom.data[p].num) > 0
         /\ BigSign(frame.denom.data[p].den) > 0

\* a call whose patches are all zero: the denominator is c_1 * c_2 alone
C7_Witness ==
  /\ Returned
  /\ NumPatches > 0
  /\ Constant(frame.patches_true, 0)
  /\ Constant(frame.patches_pred, 0)
  /\ \A p \in 1..Len(frame.denom.data) : BigSign(frame.denom.data[p].num) > 0

----------------------------------------------------------------------------
(* C10: without clipping, every per-patch similarity lies in [-1, 1], so   *)
(* every per-patch term and the returned mean lie in [0, 1], for batches   *)
(* of one shape with arbitrary pixel values.                               *)

InUnit(x) == RatLeq(RatOfInt(0), x) /\ RatLeq(x, RatOfInt(1))

----------------------------------------------------------------------------
(* C4: whenever the shapes of y_true and y_pred differ, the call ends in   *)
(* an error raised at the patch-extraction or statistics step and returns  *)
(* no loss value.                                                          *)

\* the claim as written, without the place of the error: a call on two
\* shapes that differ never returns a value
C4_MismatchRaises ==
  (Called /\ ~SameShape) => ret.kind = "raise"

\* the elements of one example of y_pred, and the batch size y_true takes
\* when it is reshaped to them
PerExample == y_pred.shape[2] * y_pred.shape[3] * y_pred.shape[4]

ReshapedBatch == Len(y_true.data) \div PerExample

\* C4 as amended: with shapes that differ, the reshape at the start of the
\* call raises when the element count of y_true is no multiple of the
\* elements of one example of y_pred; the statistics step raises when the
\* batch sizes after the reshape differ and neither is 1; in every other
\* case y_true is reshaped and broadcast silently and a value is returned
C4_MismatchOutcome ==
  (Called /\ ~SameShape)
  => IF Len(y_true.data) % PerExample # 0
     THEN ret.kind = "raise" /\ ret.at = "reshape"
     ELSE IF ReshapedBatch # y_pred.shape[1] /\ ReshapedBatch # 1 /\ y_pred.shape[1] # 1
     THEN ret.kind = "raise" /\ ret.at = "statistics"
     ELSE ret.kind = "return"

\* a y_true of another shape and the same element count, accepted
C4_Witness ==
  /\ Called
  /\ ~SameShape
  /\ Len(y_true.data) = Len(y_pred.data)
  /\ ret.kind = "return"
  /\ RatFinite(ret.val)
  /\ RatLess(RatOfInt(0), ret.val)

----------------------------------------------------------------------------
(* C5: _preprocess_padding maps 'same' to 'SAME' and 'valid' to 'VALID'    *)
(* and raises a ValueError carrying the value for every other string;      *)
(* extract_image_patches extracts nothing for an invalid padding.          *)
C5_PaddingChecked ==
  /\ (pc = "done" /\ frame.stage = "padding")
       => IF frame.padding = "same" THEN ret = [kind |-> "return", val |-> "SAME"]
          ELSE IF frame.padding = "valid" THEN ret = [kind |-> "return", val |-> "VALID"]
          ELSE /\ ret.kind = "raise"
               /\ ret.exc = "ValueError"
               /\ ret.args[Len(ret.args)] = frame.padding
  /\ (pc = "done" /\ frame.stage = "helper")
       => IF frame.padding \in {"same", "valid"}
          THEN ret.kind = "return" \/ ret.exc # "ValueError"
          ELSE /\ ret.kind = "raise"
               /\ ret.exc = "ValueError"
               /\ ret.args[Len(ret.args)] = frame.padding

\* the helper called with an upper-case padding, refused
C5_Witness ==
  /\ pc = "done"
  /\ frame.stage = "helper"
  /\ frame.padding = "SAME"
  /\ ret.kind = "raise"
  /\ ret.exc = "ValueError"
  /\ ret.args = <<"Invalid padding:", "SAME">>

----------------------------------------------------------------------------
(* C6: the call extracts floor(H/k) * floor(W/k) patches per image, each a *)
(* complete k x k block, no two sharing a pixel, and drops the trailing    *)
(* pixels without raising: the loss does not depend on them.               *)

ChannelsFirst == self.dim_ordering = "channels_first"

Height(x)   == IF ChannelsFirst THEN x.shape[3] ELSE x.shape[2]
Width(x)    == IF ChannelsFirst THEN x.shape[4] ELSE x.shape[3]
Channels(x) == IF ChannelsFirst THEN x.shape[2] ELSE x.shape[4]

\* the place in x.data of pixel (h, w) of channel ch of image b
PixelIndex(x, b, h, w, ch) ==
  IF ChannelsFirst
  THEN 1 + ((b * x.shape[2] + ch) * x.shape[3] + h) * x.shape[4] + w
  ELSE 1 + ((b * x.shape[2] + h) * x.shape[3] + w) * x.shape[4] + ch

\* the places of the pixels of the block in row r and column c of image b
Block(x, b, r, c) ==
  LET k == self.kernel_size IN
  { PixelIndex(x, b, r * k + i, c * k + j, ch) :
      i \in 0..(k - 1), j \in 0..(k - 1), ch \in 0..(Channels(x) - 1) }

\* x with every pixel numbered by its place
Numbered(x) == Tensor(x.shape, [p \in 1..Len(x.data) |-> p])

\* x with the pixels outside the complete blocks set to zero
WithoutTrailing(x) ==
  LET k == self.kernel_size
      kept == UNION { Block(x, b, r, c) :
                        b \in 0..(x.shape[1] - 1),
                        r \in 0..((Height(x) \div k) - 1),
                        c \in 0..((Width(x) \div k) - 1) }
  IN  Tensor(x.shape, [p \in 1..Len(x.data) |-> IF p \in kept THEN x.data[p] ELSE 0])

C6_PatchesTileTheImage ==
  (Returned /\ SameShape)
  => LET k     == self.kernel_size
         rows  == Height(y_pred) \div k
         cols  == Width(y_pred) \div k
         shape == <<y_pred.shape[1], rows, cols, k * k * Channels(y_pred)>>
         pat   == extract_image_patches(Numbered(y_pred), <<k, k>>, <<k, k>>, "valid",
                                        self.dim_ordering)
     IN  /\ frame.patches_pred.shape = shape
         /\ frame.patches_true.shape = shape
         /\ NumPatches = y_pred.shape[1] * rows * cols
         /\ pat.kind = "ok"
         /\ pat.val.shape = shape
         /\ \A b \in 0..(shape[1] - 1), r \in 0..(rows - 1), c \in 0..(cols - 1) :
              { At(pat.val, b, r, c, e) : e \in 0..(shape[4] - 1) } = Block(y_pred, b, r, c)
         /\ Cardinality({ pat.val.data[p] : p \in 1..Len(pat.val.data) })
              = Len(pat.val.data)
         /\ SameOutcome(ret, DSSIMObjective_call(self, WithoutTrailing(y_true),
                                                 WithoutTrailing(y_pred)).ret)

\* a 2x3 image under a kernel of 2: one patch, and two inputs that differ in
\* the dropped column alone have loss 0
C6_Witness ==
  /\ Returned
  /\ y_pred.shape = <<1, 2, 3, 1>>
  /\ y_true.shape = <<1, 2, 3, 1>>
  /\ ~ChannelsFirst
  /\ self.kernel_size = 2
  /\ NumPatches = 1
  /\ y_true # y_pred
  /\ WithoutTrailing(y_true) = WithoutTrailing(y_pred)
  /\ WithoutTrailing(y_pred) # y_pred
  /\ frame.patches_pred.data[1] # frame.patches_pred.data[2]
  /\ RatEq(ret.val, RatOfInt(0))

----------------------------------------------------------------------------
(* C8: an all-zero batch against an all-one batch, with max_value 1 and    *)
(* the default k1 and k2, gives the loss (1 - c_1/(1 + c_1)) / 2, which is *)
(* below 0.5 and within 0.001 of it, whatever kernel_size and image size.  *)

Defaults == self.k1 = Q(1, 100) /\ self.k2 = Q(3, 100) /\ self.max_value = 1

ZeroAgainstOne ==
  /\ SameShape
  /\ \/ Constant(y_true, 0) /\ Constant(y_pred, 1)
     \/ Constant(y_true, 1) /\ Constant(y_pred, 0)

\* (1 - c_1/(1 + c_1)) / 2 = d / (2 * (d + n)) for c_1 = n/d
NearHalf == Rat(Big(self.c_1.d), Big(2 * (self.c_1.d + self.c_1.n)))

IsNearHalf(x) ==
  /\ RatEq(x, NearHalf)
  /\ RatLess(x, Half)
  /\ RatLess(RatSub(Half, Rat(Big(1), Big(1000))), x)

\* the claim as written
C8_ZeroAgainstOneNearHalf ==
  (Returned /\ Defaults /\ ZeroAgainstOne) => IsNearHalf(ret.val)

\* C8 as amended: so it is whenever at least one patch is extracted; an
\* image smaller than the kernel gives no patch and the call returns NaN
C8_NearHalfWhenPatched ==
  (Returned /\ Defaults /\ ZeroAgainstOne)
  => /\ \A p \in 1..NumPatches :
          RatEq(frame.ssim.data[p], Rat(Big(self.c_1.n), Big(self.c_1.d + self.c_1.n)))
     /\ IF NumPatches > 0 THEN IsNearHalf(ret.val) ELSE IsNaN(ret.val)

C8_Witness ==
  /\ Returned
  /\ Defaults
  /\ ZeroAgainstOne
  /\ self.kernel_size = 2
  /\ NumPatches > 0
  /\ IsNearHalf(ret.val)

----------------------------------------------------------------------------
(* C9: no call changes the configuration set at construction, and the      *)
(* result of a call depends on its two inputs and the configuration alone: *)
(* the same pair gives the same result wherever it comes in the sequence   *)
(* of calls, calls that raise included.                                    *)
C9_ConfigurationFixed ==
  [][ /\ self' = self
      /\ \A i \in 1..Len(calls'), j \in 1..Len(calls') :
           (calls'[i].y_true = calls'[j].y_true /\ calls'[i].y_pred = calls'[j].y_pred)
             => calls'[i].ret = calls'[j].ret ]_vars

\* the same pair, which is not symmetric, called twice on one object
C9_Witness ==
  /\ Len(calls) = 2
  /\ calls[1].y_true = calls[2].y_true
  /\ calls[1].y_pred = calls[2].y_pred
  /\ calls[1].ret = calls[2].ret
  /\ calls[1].ret.kind = "return"
  /\ calls[1].y_true # calls[1].y_pred
  /\ self \in Objects

====
